---- MODULE Spec2Model ----
(***************************************************************************)
(* The stocking-report monitor (fishcomparentxtANDparseAWSfunction.py):    *)
(* lambda_handler reads the stored fingerprint, fetches the report through *)
(* an ordered list of proxies with 5 attempts each, compares SHA-256       *)
(* fingerprints, replaces the stored fingerprint by delete_object then     *)
(* put_object, parses the PDF and sends one SMS per extracted entry.       *)
(*                                                                         *)
(* Every blocking call of the handler (the S3 read, one fetch attempt with *)
(* its sleep, delete_object, put_object, one messages.create) is one       *)
(* action; the local computation that follows a call up to the next call   *)
(* belongs to the same action.  The outcome of every call to the outside   *)
(* world is chosen by the environment.                                     *)
(***************************************************************************)
EXTENDS Integers, Sequences, FiniteSets, TLC

\* ------------------------------------------------------------------ bounds

\* Longest configured proxy list.
MaxProxies == 3
\* Document versions the source may serve are 0..NumDocs (0 is the empty body).
NumDocs == 2

\* Invocations of the handler; two are enough to overlap.
Runs == {1, 2}

\* ------------------------------------------------------- program constants

\* range(5): attempts made through each proxy.
maxAttemptsPerProxy == 5
\* len(row) >= 6
MinCells == 6
\* get_pdf_with_proxy's "return None", and a response not yet assigned.
None == 0

\* Status codes the environment may answer with.
StatusCodes == {200, 204, 304, 404, 500}
\* What requests.get may come back with: an exception (a transport error, a
\* timeout), or a status with a body; only the body of a 200 answer is read.
Answers ==
  {[raised |-> TRUE, status |-> 0, body |-> 0]} \cup
  {[raised |-> FALSE, status |-> s, body |-> 0] : s \in StatusCodes} \cup
  {[raised |-> FALSE, status |-> 200, body |-> b] : b \in 0..NumDocs}

\* ------------------------------------------------------------------- texts

\* A hash text is a hex digest in some letter case, with or without trailing
\* white space.  hex identifies the digest's digits case-folded.
Text == [hex : 0..(NumDocs + 1), upper : BOOLEAN, nl : BOOLEAN]
\* No object under the key (and a local not yet assigned).
Absent == [hex |-> -1, upper |-> FALSE, nl |-> FALSE]

\* hashlib.sha256(content).hexdigest(): lower-case hex; distinct contents have
\* distinct digests.
hexdigest(content) == [hex |-> content, upper |-> FALSE, nl |-> FALSE]
\* str.upper()
upper(t) == [t EXCEPT !.upper = TRUE]
\* str.strip()
strip(t) == [t EXCEPT !.nl = FALSE]
\* file_hash + "\n"
new_hash_content(t) == [t EXCEPT !.nl = TRUE]

\* A read that keeps the stored text's trailing white space.
read_expected_hash_unstripped(t) == upper(t)

\* A read that keeps the stored text's letter case.
read_expected_hash_cased(t) == strip(t)

\* response.text.strip().upper()
read_expected_hash(t) == upper(strip(t))
\* hashlib.sha256(file_content).hexdigest().upper()
compute_file_hash(content) == upper(hexdigest(content))
\* file_hash != expected_hash
hash_mismatch(fh, eh) == fh # eh

\* --------------------------------------------------------------- documents

\* A cell of row i of table t of page p, column c.
Cell(p, t, i, c) == p * 1000 + t * 100 + i * 10 + c
Row(p, t, i) == [c \in 1..MinCells |-> Cell(p, t, i, c)]
Table(p, t, nrows) == [i \in 1..nrows |-> Row(p, t, i)]

\* What page.extract_tables() returns for each page of a document: a list of
\* tables, each a list of rows.
Pages(content) ==
  CASE content = 0 -> << >>
    [] content = 1 -> << <<Table(1, 1, 6)>> >>
    [] content = 2 -> << <<Table(1, 1, 6), Table(1, 2, 4)>>,
                         <<Table(2, 1, 7), Table(2, 2, 6)>> >>
    [] OTHER -> << <<Table(1, 1, 5)>> >>

\* The body of "for row in table": row ranges over what extract_tables()
\* returned for the page.
RECURSIVE page_entries(_, _)
page_entries(table, n) ==
  IF n > Len(table) THEN << >>
  ELSE LET row == table[n] IN
       (IF Len(row) >= MinCells
          THEN << [Date |-> row[1], Water |-> row[2], CityTown |-> row[3],
                   Species |-> row[4], QTY |-> row[5], Size |-> row[6]] >>
          ELSE << >>) \o page_entries(table, n + 1)

\* Lines 42 and 58-59: pdfplumber raised, at open (an empty body is no PDF) or
\* at a page after the good ones.
parse_raised(file_content, good) ==
  Pages(file_content) = << >> \/ good < Len(Pages(file_content))

\* parse_pdf: good pages are traversed before an exception (if any) ends the
\* traversal; what was appended so far is returned.
RECURSIVE parse_pdf_from(_, _, _)
parse_pdf_from(pages, p, good) ==
  IF p > good \/ p > Len(pages) THEN << >>
  ELSE page_entries(pages[p], 1) \o parse_pdf_from(pages, p + 1, good)

parse_pdf(file_content, good) == parse_pdf_from(Pages(file_content), 1, good)

\* The f-string of the SMS: Date, City/Town, QTY, Size, Species.
message_body(entry) ==
  <<entry.Date, entry.CityTown, entry.QTY, entry.Size, entry.Species>>

\* ------------------------------------------------------------------- state

VARIABLES
  PROXY_URLS,      \* the environment variable: set or not, and its comma-separated fields
  store,           \* the object fishstockhash.txt: a Text or Absent
  pending,         \* invocations the trigger has yet to fire
  pc,              \* where each invocation stands
  proxy_urls,      \* the split list
  hash_text,       \* response.text of the hash file as it was read
  expected_hash,
  proxy_index,     \* position of proxy_url in proxy_urls (1-based)
  attempt,         \* the inner loop variable, 0..4
  response,        \* status of the last get_pdf_with_proxy result, or None
  file_content,
  file_hash,
  extracted_data,
  entry_index,     \* position of entry in extracted_data
  attempts,        \* history: fetch attempts issued through each proxy
  okAt,            \* history: <<proxy, its n-th attempt>> first answered with status 200
  storeOps,        \* history: <<operation, succeeded>> of each S3 write call
  parsed,          \* history: parse_pdf was called
  sent,            \* history: <<body, succeeded>> of each messages.create
  smsErrors,       \* history: "Error sending SMS" lines logged
  log,             \* the messages the invocation has logged (which, not how often)
  result           \* how the invocation ended

\* The bulk export script (fishyfileParsePDFtoXLS.py).
VARIABLES
  bulk_pc,         \* where the script stands
  pdf,             \* the text of the fetched report: pages of lines of tokens
  page_number,     \* pages traversed so far
  current_county,
  all_data,
  origin,          \* history: <<page, line>> each row of all_data was read from
  headers,         \* history: capture, page and line of each county match
  groups,          \* the (county, group) pairs of df.groupby still to be written
  writes,          \* history: <<county, sheet_name, rows>> of each to_excel call
  sheets,          \* the workbook: <<sheet_name, rows>> in order of creation
  bulk_result      \* how the script ended

bulkvars == <<bulk_pc, pdf, page_number, current_county, all_data, origin, headers, groups,
              writes, sheets, bulk_result>>

vars == <<PROXY_URLS, store, pending, pc, proxy_urls, hash_text, expected_hash,
          proxy_index, attempt, response, file_content, file_hash, extracted_data,
          entry_index, attempts, okAt, storeOps, parsed, sent, smsErrors, log,
          result>>

\* os.getenv('PROXY_URLS').split(','): the empty string splits into one
\* empty field (written 0).
split(s) == IF s = << >> THEN <<0>> ELSE s

\* os.getenv returns None for a variable that is not set.
Unset == [set |-> FALSE, fields |-> << >>]
ProxyConfigs ==
  {[set |-> TRUE, fields |-> [i \in 1..k |-> i]] : k \in 0..MaxProxies}

StoredTexts == {t \in Text : t.hex \in 1..NumDocs} \cup {Absent}

InitLocals ==
  /\ pc = [r \in Runs |-> "idle"]
  /\ proxy_urls = [r \in Runs |-> << >>]
  /\ hash_text = [r \in Runs |-> Absent]
  /\ expected_hash = [r \in Runs |-> Absent]
  /\ proxy_index = [r \in Runs |-> 0]
  /\ attempt = [r \in Runs |-> 0]
  /\ response = [r \in Runs |-> None]
  /\ file_content = [r \in Runs |-> 0]
  /\ file_hash = [r \in Runs |-> Absent]
  /\ extracted_data = [r \in Runs |-> << >>]
  /\ entry_index = [r \in Runs |-> 0]
  /\ attempts = [r \in Runs |-> << >>]
  /\ okAt = [r \in Runs |-> <<0, 0>>]
  /\ storeOps = [r \in Runs |-> << >>]
  /\ parsed = [r \in Runs |-> FALSE]
  /\ sent = [r \in Runs |-> << >>]
  /\ smsErrors = [r \in Runs |-> 0]
  /\ log = [r \in Runs |-> {}]
  /\ result = [r \in Runs |-> "none"]

\* The bulk script is not run.
BulkIdle ==
  /\ bulk_pc = "idle"
  /\ pdf = << >>
  /\ page_number = 0
  /\ current_county = << >>
  /\ all_data = << >>
  /\ origin = << >>
  /\ headers = << >>
  /\ groups = << >>
  /\ writes = << >>
  /\ sheets = << >>
  /\ bulk_result = "none"

\* One invocation, any configuration, any stored text.
Init ==
  /\ PROXY_URLS \in {Unset} \cup ProxyConfigs
  /\ store \in StoredTexts
  /\ pending = 1
  /\ InitLocals
  /\ BulkIdle

\* Two invocations that may overlap, one proxy, the store as the handler
\* itself leaves it.
InitOverlap ==
  /\ PROXY_URLS = [set |-> TRUE, fields |-> <<1>>]
  /\ store \in {new_hash_content(compute_file_hash(d)) : d \in 1..NumDocs}
  /\ pending = 2
  /\ InitLocals
  /\ BulkIdle

\* ----------------------------------------------------------------- actions

Log(r, lines) == log' = [log EXCEPT ![r] = @ \cup lines]

Finish(r, how) ==
  /\ pc' = [pc EXCEPT ![r] = "done"]
  /\ result' = [result EXCEPT ![r] = how]

\* The trigger fires: lines 63-79.  getenv returns None for an unset variable
\* and None.split raises.
Invoke(r) ==
  /\ pending > 0
  /\ pc[r] = "idle"
  /\ \A q \in Runs : q < r => pc[q] # "idle"
  /\ pending' = pending - 1
  /\ IF ~PROXY_URLS.set
       THEN /\ Finish(r, "raised")
            /\ UNCHANGED <<proxy_urls, attempts>>
       ELSE /\ proxy_urls' = [proxy_urls EXCEPT ![r] = split(PROXY_URLS.fields)]
            /\ attempts' = [attempts EXCEPT
                              ![r] = [i \in 1..Len(split(PROXY_URLS.fields)) |-> 0]]
            /\ pc' = [pc EXCEPT ![r] = "read_hash"]
            /\ UNCHANGED result
  /\ UNCHANGED <<PROXY_URLS, store, hash_text, expected_hash, proxy_index, attempt,
                 response, file_content, file_hash, extracted_data, entry_index,
                 okAt, storeOps, parsed, sent, smsErrors, log>>
  /\ UNCHANGED bulkvars

\* A read that takes the answer for the hash whatever its status.
hash_read_ok_unchecked(ok, stored) == ok

\* Lines 83-84: requests.get returned and raise_for_status did not raise; an
\* absent object answers 404.
hash_read_ok(ok, stored) == ok /\ stored # Absent

\* What lambda_handler hands back to its caller: lines 88, 125, 155 and 159
\* are a bare return, lines 170-173 return the statusCode 500 dict, and an
\* exception nobody catches propagates.
return_value(how) ==
  CASE how = "all_proxies_failed" -> "statusCode 500"
    [] how = "raised" -> "exception"
    [] how = "none" -> "running"
    [] OTHER -> "None"

\* Lines 81-88: the GET of the hash file.  An absent object answers 404, which
\* raise_for_status raises; any RequestException ends the invocation.
FetchExpectedHash(r) ==
  /\ pc[r] = "read_hash"
  /\ \E ok \in BOOLEAN :
       IF hash_read_ok(ok, store)
         THEN /\ hash_text' = [hash_text EXCEPT ![r] = store]
              /\ expected_hash' = [expected_hash EXCEPT ![r] = read_expected_hash(store)]
              /\ proxy_index' = [proxy_index EXCEPT ![r] = 1]
              /\ pc' = [pc EXCEPT ![r] = "fetch"]
              /\ UNCHANGED <<result, log>>
         ELSE /\ Finish(r, "store_read_error")
              /\ Log(r, {"Error fetching expected hash from S3"})
              /\ UNCHANGED <<hash_text, expected_hash, proxy_index>>
  /\ UNCHANGED <<PROXY_URLS, store, pending, proxy_urls, attempt, response,
                 file_content, file_hash, extracted_data, entry_index, attempts,
                 okAt, storeOps, parsed, sent, smsErrors>>
  /\ UNCHANGED bulkvars

\* get_pdf_with_proxy, lines 18-31: the status of the returned response, or
\* None when requests.get raised (a transport error, a timeout) or
\* raise_for_status did.
get_pdf_with_proxy(raised, status) ==
  IF raised THEN None
  ELSE IF status >= 400 THEN None
  ELSE status

\* A test that takes every status below 300 for a fetched document.
fetch_succeeded_2xx(resp) == resp # None /\ resp < 300

\* Line 101: "response and response.status_code == 200" (a Response is
\* truthy when its status is below 400).
fetch_succeeded(resp) == resp # None /\ resp < 400 /\ resp = 200

\* A loop that gives a proxy one attempt too many.
last_attempt_late(a) == a + 1 > maxAttemptsPerProxy

\* Lines 98 and 162-166: attempt a was the last of range(5).
last_attempt(a) == a + 1 >= maxAttemptsPerProxy

\* A rotation that never reaches the last proxy of the list.
more_proxies_short(i, n) == i + 1 < n
\* A rotation that starts over instead of moving on.
next_proxy_restart(i) == 1

\* Line 91: the for statement over proxy_urls has a next element after
\* position i of n, and which.
more_proxies(i, n) == i < n
next_proxy(i) == i + 1

\* Lines 91-109 and 157-166: one pass of the inner loop body: the fetch, the
\* test of the response, and on success the fingerprint and its comparison;
\* on failure the sleep and the step of the two for statements.
Attempt(r) ==
  /\ pc[r] = "fetch"
  /\ \E answer \in Answers :
       LET raised == answer.raised
           status == answer.status
           body == answer.body
           resp == get_pdf_with_proxy(raised, status)
           fh == compute_file_hash(body)
           tried == {"Attempt with proxy"} \cup
                    (IF resp = None THEN {"Error fetching PDF through proxy"} ELSE {})
           failed == tried \cup {"Attempt failed with proxy"}
       IN
       /\ response' = [response EXCEPT ![r] = resp]
       /\ attempts' = [attempts EXCEPT ![r][proxy_index[r]] = @ + 1]
       /\ okAt' = [okAt EXCEPT
                     ![r] = IF @ = <<0, 0>> /\ ~raised /\ status = 200
                              THEN <<proxy_index[r], attempts[r][proxy_index[r]] + 1>>
                              ELSE @]
       /\ IF fetch_succeeded(resp)
            THEN /\ file_content' = [file_content EXCEPT ![r] = body]
                 /\ file_hash' = [file_hash EXCEPT ![r] = fh]
                 /\ IF hash_mismatch(fh, expected_hash[r])
                      THEN /\ pc' = [pc EXCEPT ![r] = "delete"]
                           /\ Log(r, tried \cup {"Hash mismatch detected"})
                           /\ UNCHANGED result
                      ELSE /\ Finish(r, "no_change")
                           /\ Log(r, tried \cup {"No file change detected"})
                 /\ UNCHANGED <<proxy_index, attempt>>
            ELSE /\ UNCHANGED <<file_content, file_hash>>
                 /\ IF ~last_attempt(attempt[r])
                      THEN /\ attempt' = [attempt EXCEPT ![r] = @ + 1]
                           /\ Log(r, failed)
                           /\ UNCHANGED <<proxy_index, pc, result>>
                      ELSE IF more_proxies(proxy_index[r], Len(proxy_urls[r]))
                        THEN /\ proxy_index' = [proxy_index EXCEPT
                                                ![r] = next_proxy(proxy_index[r])]
                             /\ attempt' = [attempt EXCEPT ![r] = 0]
                             /\ Log(r, failed \cup {"All retries failed for proxy"})
                             /\ UNCHANGED <<pc, result>>
                        ELSE /\ Finish(r, "all_proxies_failed")
                             /\ Log(r, failed \cup {"All retries failed for proxy",
                                                     "All proxies have failed"})
                             /\ UNCHANGED <<proxy_index, attempt>>
  /\ UNCHANGED <<PROXY_URLS, store, pending, proxy_urls, hash_text, expected_hash,
                 extracted_data, entry_index, storeOps, parsed, sent, smsErrors>>
  /\ UNCHANGED bulkvars

\* A handler that goes on after a put_object that raised.
after_put_ignoring(ok) == "parse"

\* Lines 123-125: an exception of either S3 call ends the invocation.
after_delete(ok) == IF ok THEN "put" ELSE "done"
after_put(ok) == IF ok THEN "parse" ELSE "done"

\* Line 114: delete_object.
DeleteObject(r) ==
  /\ pc[r] = "delete"
  /\ \E ok \in BOOLEAN :
       /\ store' = IF ok THEN Absent ELSE store
       /\ storeOps' = [storeOps EXCEPT ![r] = Append(@, <<"delete_object", ok>>)]
       /\ pc' = [pc EXCEPT ![r] = after_delete(ok)]
       /\ result' = [result EXCEPT
                       ![r] = IF after_delete(ok) = "done" THEN "store_write_error" ELSE @]
       /\ Log(r, IF ok THEN {"Deleted old hash file from S3"}
                       ELSE {"Error updating hash file in S3"})
  /\ UNCHANGED <<PROXY_URLS, pending, proxy_urls, hash_text, expected_hash,
                 proxy_index, attempt, response, file_content, file_hash,
                 extracted_data, entry_index, attempts, okAt, parsed, sent, smsErrors>>
  /\ UNCHANGED bulkvars

\* Lines 118-121: put_object of file_hash + "\n".
PutObject(r) ==
  /\ pc[r] = "put"
  /\ \E ok \in BOOLEAN :
       /\ store' = IF ok THEN new_hash_content(file_hash[r]) ELSE store
       /\ storeOps' = [storeOps EXCEPT ![r] = Append(@, <<"put_object", ok>>)]
       /\ pc' = [pc EXCEPT ![r] = after_put(ok)]
       /\ result' = [result EXCEPT
                       ![r] = IF after_put(ok) = "done" THEN "store_write_error" ELSE @]
       /\ Log(r, IF ok THEN {"Uploaded new hash file to S3"}
                       ELSE {"Error updating hash file in S3"})
  /\ UNCHANGED <<PROXY_URLS, pending, proxy_urls, hash_text, expected_hash,
                 proxy_index, attempt, response, file_content, file_hash,
                 extracted_data, entry_index, attempts, okAt, parsed, sent, smsErrors>>
  /\ UNCHANGED bulkvars

\* Lines 128-131, and line 155 when there is nothing to send: parse_pdf, then
\* the Twilio client, whose constructor raises without credentials.  The pages
\* pdfplumber reads before raising are the environment's; an empty body has
\* none.
ParseAndClient(r) ==
  /\ pc[r] = "parse"
  /\ \E good \in 0..Len(Pages(file_content[r])), client_ok \in BOOLEAN :
       LET data == parse_pdf(file_content[r], good) IN
       /\ extracted_data' = [extracted_data EXCEPT ![r] = data]
       /\ parsed' = [parsed EXCEPT ![r] = TRUE]
       /\ Log(r, IF parse_raised(file_content[r], good)
                   THEN {"Error parsing PDF"} ELSE {})
       /\ IF ~client_ok
            THEN /\ Finish(r, "raised")
                 /\ UNCHANGED entry_index
            ELSE IF data = << >>
              THEN /\ Finish(r, "sent")
                   /\ UNCHANGED entry_index
              ELSE /\ entry_index' = [entry_index EXCEPT ![r] = 1]
                   /\ pc' = [pc EXCEPT ![r] = "send"]
                   /\ UNCHANGED result
  /\ UNCHANGED <<PROXY_URLS, store, pending, proxy_urls, hash_text, expected_hash,
                 proxy_index, attempt, response, file_content, file_hash, attempts,
                 okAt, storeOps, sent, smsErrors>>
  /\ UNCHANGED bulkvars

\* A dispatch loop that gives up at the first send that raised.
continue_dispatch_abort(ok, i, n) == ok /\ i < n

\* Lines 134-153: whether the for statement goes on to the next entry after a
\* send that succeeded or raised.
continue_dispatch(ok, i, n) == i < n

\* Lines 134-155: one pass of the dispatch loop, and the return after the
\* last entry.
SendSMS(r) ==
  /\ pc[r] = "send"
  /\ \E ok \in BOOLEAN :
       LET entry == extracted_data[r][entry_index[r]] IN
       /\ sent' = [sent EXCEPT ![r] = Append(@, <<message_body(entry), ok>>)]
       /\ smsErrors' = [smsErrors EXCEPT ![r] = IF ok THEN @ ELSE @ + 1]
       /\ Log(r, IF ok THEN {"Message SID"} ELSE {"Error sending SMS"})
       /\ IF continue_dispatch(ok, entry_index[r], Len(extracted_data[r]))
            THEN /\ entry_index' = [entry_index EXCEPT ![r] = @ + 1]
                 /\ UNCHANGED <<pc, result>>
            ELSE /\ Finish(r, "sent")
                 /\ UNCHANGED entry_index
  /\ UNCHANGED <<PROXY_URLS, store, pending, proxy_urls, hash_text, expected_hash,
                 proxy_index, attempt, response, file_content, file_hash,
                 extracted_data, attempts, okAt, storeOps, parsed>>
  /\ UNCHANGED bulkvars

Next ==
  \E r \in Runs :
    \/ Invoke(r)
    \/ FetchExpectedHash(r)
    \/ Attempt(r)
    \/ DeleteObject(r)
    \/ PutObject(r)
    \/ ParseAndClient(r)
    \/ SendSMS(r)

Spec == Init /\ [][Next]_vars

SpecOverlap == InitOverlap /\ [][Next]_vars

\* ------------------------------------------------------------- properties

RECURSIVE SumTo(_, _)
SumTo(seq, n) == IF n = 0 THEN 0 ELSE seq[n] + SumTo(seq, n - 1)
\* Fetch attempts the invocation has issued.
TotalAttempts(r) == SumTo(attempts[r], Len(attempts[r]))

NoSuccess == <<0, 0>>
ReplaceDone == << <<"delete_object", TRUE>>, <<"put_object", TRUE>> >>

\* C1: when the first j proxies of the list failed on every attempt and
\* proxy j+1 answered 200 on its first attempt, the invocation has issued
\* exactly j*maxAttemptsPerProxy + 1 fetch attempts, maxAttemptsPerProxy
\* through each of the first j proxies, and none through a proxy after j+1.
C1_SuccessAfterJFailingProxies ==
  \A r \in Runs :
    (okAt[r] # NoSuccess /\ okAt[r][2] = 1) =>
      LET j == okAt[r][1] - 1 IN
      /\ j < Len(proxy_urls[r])
      /\ TotalAttempts(r) = j * maxAttemptsPerProxy + 1
      /\ \A q \in 1..Len(attempts[r]) :
           attempts[r][q] = (IF q <= j THEN maxAttemptsPerProxy
                             ELSE IF q = j + 1 THEN 1 ELSE 0)
      /\ pc[r] # "fetch"

\* C1's case: two proxies failed throughout, the third of three answered at once.
C1_Witness ==
  \E r \in Runs :
    /\ Len(proxy_urls[r]) = 3
    /\ okAt[r] = <<3, 1>>
    /\ TotalAttempts(r) = 2 * maxAttemptsPerProxy + 1

\* C2: when every proxy failed on every attempt the invocation ends in fetch
\* exhaustion after exactly k*maxAttemptsPerProxy attempts, and it has issued
\* no delete and no put, parsed nothing and sent nothing.
C2_ExhaustionAfterAllFail ==
  \A r \in Runs :
    LET k == Len(proxy_urls[r]) IN
    /\ (result[r] = "all_proxies_failed" =>
          /\ TotalAttempts(r) = k * maxAttemptsPerProxy
          /\ \A q \in 1..k : attempts[r][q] = maxAttemptsPerProxy
          /\ okAt[r] = NoSuccess
          /\ storeOps[r] = << >>
          /\ ~parsed[r]
          /\ sent[r] = << >>
          /\ store = hash_text[r])
    /\ (pc[r] = "fetch" => TotalAttempts(r) < k * maxAttemptsPerProxy)
    /\ ((okAt[r] = NoSuccess /\ pc[r] = "done" /\ TotalAttempts(r) > 0) =>
          result[r] = "all_proxies_failed")

\* C2's case: a list of three proxies exhausted.
C2_Witness ==
  \E r \in Runs :
    /\ result[r] = "all_proxies_failed"
    /\ Len(proxy_urls[r]) = 3
    /\ TotalAttempts(r) = 3 * maxAttemptsPerProxy

\* C3: every step issues at most one fetch attempt; an attempt through proxy
\* p is issued only when no attempt has succeeded, every proxy before p has
\* had exactly maxAttemptsPerProxy attempts, p has had fewer, and no proxy
\* after p has had any.
C3_AttemptsInOrder ==
  [][\A r \in Runs :
       (Len(attempts[r]) = Len(attempts'[r]) /\ attempts'[r] # attempts[r]) =>
         \E p \in 1..Len(attempts[r]) :
           /\ attempts'[r] = [attempts[r] EXCEPT ![p] = @ + 1]
           /\ attempts[r][p] < maxAttemptsPerProxy
           /\ okAt[r] = NoSuccess
           /\ \A q \in 1..Len(attempts[r]) :
                /\ q < p => attempts[r][q] = maxAttemptsPerProxy
                /\ q > p => attempts[r][q] = 0
           /\ \A q \in Runs \ {r} : attempts'[q] = attempts[q]]_vars

\* C3's case: the rotation has moved on to the second proxy.
C3_Witness ==
  \E r \in Runs :
    /\ Len(attempts[r]) >= 2
    /\ attempts[r][1] = maxAttemptsPerProxy
    /\ attempts[r][2] = 2

Is2xx(status) == status >= 200 /\ status < 300

\* C4 as stated: once an attempt has been answered with any 2xx status, no
\* further fetch attempt is issued.
C4_Any2xxEndsFetching ==
  [][\A r \in Runs :
       (pc[r] = "fetch" /\ Is2xx(response[r])) => attempts'[r] = attempts[r]]_vars

\* C4, amended: an attempt answered with anything but status 200 (another
\* 2xx status included) counts as failed and fetching goes on or is
\* exhausted; the first attempt answered with status 200, whatever its body,
\* ends fetching: the same step fingerprints that body and compares it, and
\* no attempt is issued afterwards.
C4_Status200EndsFetching ==
  [][\A r \in Runs :
       /\ okAt[r] # NoSuccess => attempts'[r] = attempts[r]
       /\ (Len(attempts[r]) = Len(attempts'[r]) /\ attempts'[r] # attempts[r]) =>
            IF response'[r] = 200
              THEN /\ okAt'[r] # NoSuccess
                   /\ file_hash'[r].hex = file_content'[r]
                   /\ pc'[r] \in {"delete", "done"}
                   /\ pc'[r] = "done" <=> file_hash'[r].hex = hash_text[r].hex
                   /\ pc'[r] = "done" => result'[r] = "no_change"
              ELSE /\ okAt'[r] = NoSuccess
                   /\ file_hash'[r] = Absent
                   /\ pc'[r] = "fetch" \/ result'[r] = "all_proxies_failed"]_vars

\* C4's case: a 204 answer was retried, then a 200 answer with an empty body
\* ended fetching and was compared.
C4_Witness ==
  \E r \in Runs :
    /\ okAt[r] = <<1, 2>>
    /\ response[r] = 200
    /\ file_content[r] = 0
    /\ file_hash[r] = compute_file_hash(0)
    /\ pc[r] = "delete"

\* Two hash texts are the same but for letter case.
EqualIgnoringCase(a, b) == a.hex = b.hex /\ a.nl = b.nl

\* C5: when the fingerprint of the fetched document equals the stored text
\* but for letter case, the invocation ends reporting no change; and an
\* invocation that reports no change has issued no delete and no put, has
\* not parsed and has sent nothing, and the store is as it was read.
C5_UnchangedTouchesNothing ==
  \A r \in Runs :
    /\ (file_hash[r] # Absent /\ EqualIgnoringCase(file_hash[r], hash_text[r])) =>
         (pc[r] = "done" /\ result[r] = "no_change")
    /\ result[r] = "no_change" =>
         /\ storeOps[r] = << >>
         /\ ~parsed[r]
         /\ extracted_data[r] = << >>
         /\ sent[r] = << >>
         /\ store = hash_text[r]

\* C5's case: the stored text was lower case and the invocation found no change.
C5_Witness ==
  \E r \in Runs :
    /\ result[r] = "no_change"
    /\ ~hash_text[r].upper
    /\ ~hash_text[r].nl
    /\ file_hash[r].upper

\* A put or a delete of the invocation raised.
ReplaceFailed(r) == \E i \in 1..Len(storeOps[r]) : ~storeOps[r][i][2]

\* C6: an invocation parses or sends only after its delete and its put have
\* both succeeded, in that order, and (with no other writer) the store then
\* holds the new fingerprint; an invocation whose delete or put raised has
\* ended, has not parsed and has sent nothing; and a mismatch leads to the
\* replace before anything else.
C6_ReplaceBeforeNotify ==
  \A r \in Runs :
    /\ (parsed[r] \/ sent[r] # << >> \/ pc[r] \in {"parse", "send"}) =>
         /\ storeOps[r] = ReplaceDone
         /\ strip(store) = file_hash[r]
    /\ ReplaceFailed(r) =>
         /\ pc[r] = "done"
         /\ result[r] = "store_write_error"
         /\ ~parsed[r]
         /\ sent[r] = << >>
    /\ (file_hash[r] # Absent /\ file_hash[r].hex # hash_text[r].hex) =>
         /\ result[r] # "no_change"
         /\ storeOps[r] = << >> => pc[r] = "delete"

\* C6's cases: a put that raised after the delete, and a send after the replace.
C6_Witness ==
  \E r \in Runs :
    /\ storeOps[r] = << <<"delete_object", TRUE>>, <<"put_object", FALSE>> >>
    /\ pc[r] = "done"
    /\ sent[r] = << >>

\* C7: when an invocation a has replaced the stored fingerprint with that of
\* the document it fetched, and an invocation b has read the text a wrote and
\* fetched the same document, b ends reporting no change: it issues no delete
\* and no put and sends nothing, so that document version is notified by a alone.
C7_SecondRunUnchanged ==
  \A a \in Runs : \A b \in Runs \ {a} :
    ( /\ storeOps[a] = ReplaceDone
      /\ hash_text[b] = new_hash_content(file_hash[a])
      /\ file_hash[b] # Absent
      /\ file_content[b] = file_content[a] ) =>
        /\ pc[b] = "done"
        /\ result[b] = "no_change"
        /\ storeOps[b] = << >>
        /\ ~parsed[b]
        /\ sent[b] = << >>

\* C7's case: the first invocation found a change, replaced the fingerprint
\* and notified; the second read what the first wrote, fetched the same
\* document and found no change.
C7_Witness ==
  \E a \in Runs : \E b \in Runs \ {a} :
    /\ storeOps[a] = ReplaceDone
    /\ result[a] = "sent"
    /\ Len(sent[a]) = 3
    /\ hash_text[b] = new_hash_content(file_hash[a])
    /\ file_content[b] = file_content[a]
    /\ result[b] = "no_change"

\* C8 as stated: once an invocation has begun to replace the stored
\* fingerprint, a reader of the store finds the text that invocation read or
\* the new fingerprint, never an absent object.
C8_ReplaceIsAtomic ==
  \A r \in Runs :
    storeOps[r] # << >> =>
      /\ store # Absent
      /\ store.hex \in {hash_text[r].hex, file_hash[r].hex}

\* C9 as stated: of two invocations that read the same stored fingerprint
\* and fetched the same changed document, at most one puts the new
\* fingerprint and goes on to notification.
C9_OneWriterPerChange ==
  \A a \in Runs : \A b \in Runs \ {a} :
    ( /\ file_hash[a] # Absent
      /\ file_hash[a] = file_hash[b]
      /\ expected_hash[a] = expected_hash[b] ) =>
        ~( /\ <<"put_object", TRUE>> \in {storeOps[a][i] : i \in 1..Len(storeOps[a])}
           /\ <<"put_object", TRUE>> \in {storeOps[b][i] : i \in 1..Len(storeOps[b])} )

\* Sends of the invocation that raised.
RECURSIVE FailedSends(_, _)
FailedSends(seq, n) ==
  IF n = 0 THEN 0 ELSE (IF seq[n][2] THEN 0 ELSE 1) + FailedSends(seq, n - 1)

\* C10: the i-th send carries the message of the i-th extracted entry; while
\* dispatch runs, exactly the entries before the current one have been sent;
\* a dispatch that has ended has sent every entry once, whichever sends
\* raised; and one error is logged per send that raised.
C10_DispatchEveryRecord ==
  \A r \in Runs :
    /\ Len(sent[r]) <= Len(extracted_data[r])
    /\ \A i \in 1..Len(sent[r]) : sent[r][i][1] = message_body(extracted_data[r][i])
    /\ pc[r] = "send" => Len(sent[r]) = entry_index[r] - 1
    /\ (pc[r] = "done" /\ result[r] = "sent") => Len(sent[r]) = Len(extracted_data[r])
    /\ (pc[r] = "done" /\ sent[r] # << >>) => Len(sent[r]) = Len(extracted_data[r])
    /\ smsErrors[r] = FailedSends(sent[r], Len(sent[r]))

\* C10's case: three entries, the second send raised, all three were sent.
C10_Witness ==
  \E r \in Runs :
    /\ pc[r] = "done"
    /\ Len(extracted_data[r]) = 3
    /\ Len(sent[r]) = 3
    /\ sent[r][1][2] /\ ~sent[r][2][2] /\ sent[r][3][2]
    /\ smsErrors[r] = 1

\* C11 as stated: an invocation that has ended has ended in no-change,
\* changed-and-notified, changed-but-empty, fetch-exhausted or store-error.
C11_EndsInOneOfFiveOutcomes ==
  \A r \in Runs :
    pc[r] = "done" =>
      \/ result[r] = "no_change"
      \/ result[r] = "sent" /\ extracted_data[r] # << >>
      \/ result[r] = "sent" /\ extracted_data[r] = << >>
      \/ result[r] = "all_proxies_failed"
      \/ result[r] \in {"store_read_error", "store_write_error"}

\* Rows of a table with at least MinCells cells, as records of their first
\* six cells.
RECURSIVE RowRecords(_, _)
RowRecords(rows, n) ==
  IF n > Len(rows) THEN << >>
  ELSE (IF Len(rows[n]) >= MinCells
          THEN << [Date |-> rows[n][1], Water |-> rows[n][2], CityTown |-> rows[n][3],
                   Species |-> rows[n][4], QTY |-> rows[n][5], Size |-> rows[n][6]] >>
          ELSE << >>) \o RowRecords(rows, n + 1)
RECURSIVE TableRecords(_, _)
TableRecords(tables, t) ==
  IF t > Len(tables) THEN << >>
  ELSE RowRecords(tables[t], 1) \o TableRecords(tables, t + 1)
RECURSIVE DocumentRecords(_, _)
DocumentRecords(pages, p) ==
  IF p > Len(pages) THEN << >>
  ELSE TableRecords(pages[p], 1) \o DocumentRecords(pages, p + 1)

\* C12 as stated: a parse that went through yields one record for each table
\* row of at least 6 cells, from that row's first six cells, in page, table
\* and row order.
C12_OneRecordPerRow ==
  \A r \in Runs :
    (parsed[r] /\ "Error parsing PDF" \notin log[r]) =>
      LET expected == DocumentRecords(Pages(file_content[r]), 1) IN
      IF Len(extracted_data[r]) # Len(expected) THEN FALSE
      ELSE extracted_data[r] = expected

\* The invocation found a change and extracted nothing.
ChangedButEmpty(r) ==
  pc[r] = "done" /\ result[r] = "sent" /\ extracted_data[r] = << >>

\* C17 as stated: an invocation that found a change and extracted nothing
\* differs, for its caller, from every invocation that ended otherwise: in
\* what it returned, or by a message of its own in the log.
C17_EmptyExtractionReported ==
  \A a \in Runs : \A b \in Runs \ {a} :
    (ChangedButEmpty(a) /\ pc[b] = "done" /\ ~ChangedButEmpty(b)) =>
      \/ return_value(result[a]) # return_value(result[b])
      \/ log[a] \ log[b] # {}

\* C18 as stated: with PROXY_URLS set to the empty string (no proxy
\* configured) the invocation never enters the fetch loop and issues no fetch
\* attempt.
C18_EmptyProxyListNoFetch ==
  \A r \in Runs :
    (PROXY_URLS.set /\ PROXY_URLS.fields = << >>) =>
      /\ pc[r] # "fetch"
      /\ TotalAttempts(r) = 0
      /\ "Attempt with proxy" \notin log[r]

\* C19: an invocation whose read of the stored fingerprint failed, or found
\* no object, has ended as a store error having issued no fetch attempt, no
\* delete and no put, and having parsed and sent nothing; an invocation
\* fetches only with a stored text it has read.
C19_StoreReadErrorAborts ==
  \A r \in Runs :
    /\ result[r] = "store_read_error" =>
         /\ pc[r] = "done"
         /\ hash_text[r] = Absent
         /\ TotalAttempts(r) = 0
         /\ "Attempt with proxy" \notin log[r]
         /\ storeOps[r] = << >>
         /\ ~parsed[r]
         /\ sent[r] = << >>
    /\ (pc[r] = "fetch" \/ TotalAttempts(r) > 0) =>
         /\ hash_text[r] # Absent
         /\ hash_text[r] \in Text
    /\ (store = Absent /\ storeOps[r] = << >> /\ pc[r] \notin {"idle", "read_hash"}
          /\ PROXY_URLS.set) =>
         result[r] = "store_read_error"

\* C19's case: no object under the key, and the invocation ended at the read.
C19_Witness ==
  \E r \in Runs :
    /\ store = Absent
    /\ result[r] = "store_read_error"
    /\ pc[r] = "done"

\* ------------------------------------------------- the bulk export script
\*
\* Text is modelled down to its characters (code points).  A page's text is a
\* sequence of lines, a line a non-empty sequence of tokens separated by one
\* space, lines separated by one newline; a token is a non-empty sequence of
\* non-whitespace characters.

SPACE == 32
NEWLINE == 10
SLASH == 47

IsDigit(c) == c \in 48..57
IsAlpha(c) == c \in 65..90 \/ c \in 97..122
\* \w
IsWordChar(c) == IsDigit(c) \/ IsAlpha(c) \/ c = 95

AllDigits(tok) == \A i \in 1..Len(tok) : IsDigit(tok[i])
AllAlpha(tok) == \A i \in 1..Len(tok) : IsAlpha(tok[i])
AllWord(tok) == \A i \in 1..Len(tok) : IsWordChar(tok[i])

\* The length of the run of word characters that ends at position n.
RECURSIVE trail_len(_, _)
trail_len(tok, n) ==
  IF n = 0 THEN 0
  ELSE IF ~IsWordChar(tok[n]) THEN 0
  ELSE 1 + trail_len(tok, n - 1)

\* The longest run of word characters a token ends with.
trail(tok) == SubSeq(tok, Len(tok) - trail_len(tok, Len(tok)) + 1, Len(tok))

\* The length of the run of digits that starts at position i.
RECURSIVE lead_len(_, _)
lead_len(tok, i) ==
  IF i > Len(tok) THEN 0
  ELSE IF ~IsDigit(tok[i]) THEN 0
  ELSE 1 + lead_len(tok, i + 1)

\* The longest run of digits a token starts with.
lead_digits(tok) == SubSeq(tok, 1, lead_len(tok, 1))

\* The literals of the two patterns.
REPORT == <<82, 69, 80, 79, 82, 84>>
County == <<67, 111, 117, 110, 116, 121>>

\* The tokens of a page with the line each stands on and the whitespace
\* character before it (text = the lines joined by newlines).
RECURSIVE line_tokens(_, _, _)
line_tokens(line, l, i) ==
  IF i > Len(line) THEN << >>
  ELSE << [tok |-> line[i], line |-> l, sep |-> IF i = 1 THEN NEWLINE ELSE SPACE] >>
       \o line_tokens(line, l, i + 1)
RECURSIVE page_tokens(_, _)
page_tokens(lines, l) ==
  IF l > Len(lines) THEN << >>
  ELSE line_tokens(lines[l], l, 1) \o page_tokens(lines, l + 1)

NoMatch == [found |-> FALSE, capture |-> << >>, end |-> 0]

\* Line 29: the match of (?:REPORT\s+)?(\w+\s?\w+)\s+County that starts in
\* token s of the page, if there is one.  A match ends with whitespace and
\* the literal, so the capture ends with a whole token; it starts in the run
\* of word characters token s ends with, and the alternatives are tried in
\* the order of the regex engine: the optional prefix first, the longer
\* first \w+ and the optional \s first.  The literal County is taken to stand
\* as a token of its own, and REPORT as the whole trailing run of its token.
match_at(flat, s) ==
  LET t == trail(flat[s].tok)
      whole(i) == i <= Len(flat) /\ AllWord(flat[i].tok)
      literal(i) == i <= Len(flat) /\ flat[i].tok = County
  IN IF t = << >> THEN NoMatch
     ELSE IF t = REPORT /\ whole(s + 1) /\ whole(s + 2) /\ literal(s + 3)
       THEN [found |-> TRUE, end |-> s + 3,
             capture |-> flat[s + 1].tok \o <<flat[s + 2].sep>> \o flat[s + 2].tok]
     ELSE IF t = REPORT /\ whole(s + 1) /\ Len(flat[s + 1].tok) >= 2 /\ literal(s + 2)
       THEN [found |-> TRUE, end |-> s + 2, capture |-> flat[s + 1].tok]
     ELSE IF whole(s + 1) /\ literal(s + 2)
       THEN [found |-> TRUE, end |-> s + 2,
             capture |-> t \o <<flat[s + 1].sep>> \o flat[s + 1].tok]
     ELSE IF Len(t) >= 2 /\ literal(s + 1)
       THEN [found |-> TRUE, end |-> s + 1, capture |-> t]
     ELSE NoMatch

\* Line 29: re.findall scans from the left and goes on after each match.
\* Each capture comes with the line of its County literal.
RECURSIVE findall_from(_, _)
findall_from(flat, s) ==
  IF s > Len(flat) THEN << >>
  ELSE LET m == match_at(flat, s)
       IN IF m.found
            THEN << [capture |-> m.capture, line |-> flat[m.end].line] >>
                 \o findall_from(flat, m.end + 1)
            ELSE findall_from(flat, s + 1)

findall(lines) == findall_from(page_tokens(lines, 1), 1)

\* \d{1,2}/\d{1,2}/\d{4} followed by whitespace: the whole first token.
IsDate(tok) ==
  \E a \in 1..2 : \E b \in 1..2 :
    /\ Len(tok) = a + b + 6
    /\ \A i \in 1..a : IsDigit(tok[i])
    /\ tok[a + 1] = SLASH
    /\ \A i \in (a + 2)..(a + b + 1) : IsDigit(tok[i])
    /\ tok[a + b + 2] = SLASH
    /\ \A i \in (a + b + 3)..(a + b + 6) : IsDigit(tok[i])

\* Tokens from..to of a line as one string.
RECURSIVE join(_, _, _)
join(line, from, to) ==
  IF from > to THEN << >>
  ELSE IF from = to THEN line[from]
  ELSE line[from] \o <<SPACE>> \o join(line, from + 1, to)

\* Index of the first token after the date that is not purely alphabetic
\* (Len(line) + 1 if there is none).
first_non_alpha(line) ==
  CHOOSE q \in 2..(Len(line) + 1) :
    /\ \A i \in 2..(q - 1) : AllAlpha(line[i])
    /\ q = Len(line) + 1 \/ ~AllAlpha(line[q])

\* Line 40: re.match of the record pattern on a line.  The three [A-Za-z\s]+
\* groups need a whitespace after each, so at least three alphabetic tokens;
\* the first group is greedy and takes all but the last two.
record_matches(line) ==
  /\ IsDate(line[1])
  /\ LET q == first_non_alpha(line)
     IN /\ q >= 5
        /\ q + 1 <= Len(line)
        /\ AllDigits(line[q])
        /\ IsDigit(line[q + 1][1])

\* Lines 43-52: the row appended for a matching line.
record_row(county, line) ==
  LET q == first_non_alpha(line)
  IN [County |-> county, DATE |-> line[1], WATER |-> join(line, 2, q - 3),
      CityTown |-> line[q - 2], Species |-> line[q - 1], QTY |-> line[q],
      SIZE |-> lead_digits(line[q + 1])]

\* A choice of the first match of the page.
pick_county_first(matches, county) ==
  IF matches # << >> THEN matches[1].capture ELSE county

\* Lines 32-33: the last match of the page, or the county as it was.
pick_county(matches, county) ==
  IF matches # << >> THEN matches[Len(matches)].capture ELSE county

\* Lines 36-52: the rows of one page under the county in force, with the line
\* of each.
RECURSIVE page_rows(_, _, _)
page_rows(lines, county, l) ==
  IF l > Len(lines) THEN << >>
  ELSE (IF record_matches(lines[l]) /\ county # << >>
          THEN << [row |-> record_row(county, lines[l]), line |-> l] >>
          ELSE << >>) \o page_rows(lines, county, l + 1)

\* Python's order on strings: by code point, a proper prefix first.
str_less(a, b) ==
  \E i \in 1..(Len(a) + 1) :
    /\ i <= Len(b)
    /\ \A j \in 1..(i - 1) : a[j] = b[j]
    /\ i = Len(a) + 1 \/ a[i] < b[i]

RECURSIVE sorted(_)
sorted(S) ==
  IF S = {} THEN << >>
  ELSE LET m == CHOOSE m \in S : \A x \in S \ {m} : str_less(m, x)
       IN <<m>> \o sorted(S \ {m})

\* A grouping that hands every group the whole frame.
rows_of_unfiltered(data, key) == data

\* Line 66: the rows of one group, in the frame's order.
rows_of(data, key) == SelectSeq(data, LAMBDA row : row.County = key)

\* Line 66: df.groupby("County") yields the distinct counties in sorted
\* order, each with its rows.
groupby(data) ==
  LET keys == sorted({data[i].County : i \in 1..Len(data)})
  IN [g \in 1..Len(keys) |-> [county |-> keys[g], group |-> rows_of(data, keys[g])]]

SheetNameMax == 31

\* Line 68: county[:31].
sheet_name_of(county) ==
  SubSeq(county, 1, IF Len(county) < SheetNameMax THEN Len(county) ELSE SheetNameMax)

\* Rows written from the top of a sheet that already holds rows.
overlay(old, new) ==
  [i \in 1..(IF Len(old) > Len(new) THEN Len(old) ELSE Len(new)) |->
     IF i <= Len(new) THEN new[i] ELSE old[i]]

\* Line 69: to_excel through a writer opened for writing takes the sheet of
\* that name if the writer already has one and writes its cells from the
\* first row; otherwise it creates the sheet.
to_excel(book, sheet_name, rows) ==
  IF \E i \in 1..Len(book) : book[i].name = sheet_name
    THEN [i \in 1..Len(book) |->
            IF book[i].name = sheet_name
              THEN [name |-> sheet_name, rows |-> overlay(book[i].rows, rows)]
              ELSE book[i]]
    ELSE Append(book, [name |-> sheet_name, rows |-> rows])

\* The report texts considered.  Two counties whose names differ in their
\* 32nd character only, the second announced with REPORT; two record lines,
\* the second with a water of two words.
MaxPages == 2
MaxLines == 5

AndroscogginB == [i \in 1..32 |-> IF i < 32 THEN 65 ELSE 66]
AndroscogginC == [i \in 1..32 |-> IF i < 32 THEN 65 ELSE 67]
StockDate == <<53, 47, 49, 47, 50, 48, 50, 52>>
LAKE == <<76, 65, 75, 69>>
TOWN == <<84, 79, 87, 78>>
BKT == <<66, 75, 84>>
LLS == <<76, 76, 83>>

HeaderB == <<AndroscogginB, County>>
HeaderC == <<REPORT, AndroscogginC, County>>
RecordBKT == <<StockDate, LAKE, TOWN, BKT, <<51, 48, 48>>, <<49, 48>>>>
RecordLLS == <<StockDate, LAKE, LAKE, TOWN, LLS, <<50, 53>>, <<49, 48>>>>

LineShapes == {HeaderB, HeaderC, RecordBKT, RecordLLS}

PageTexts(n) == UNION {[1..k -> LineShapes] : k \in 0..n}

\* Reports of p pages with at most n lines in all.
RECURSIVE Reports(_, _)
Reports(p, n) ==
  IF p = 0 THEN {<< >>}
  ELSE UNION {{<<text>> \o rest : rest \in Reports(p - 1, n - Len(text))} :
              text \in PageTexts(n)}

\* The script is at its start; the monitor is not triggered.
InitBulk ==
  /\ PROXY_URLS = Unset
  /\ store = Absent
  /\ pending = 0
  /\ InitLocals
  /\ BulkIdle

BulkFinish(how) ==
  /\ bulk_pc' = "done"
  /\ bulk_result' = how

\* Lines 9-16: the GET of the report; any status but 200 raises.
BulkFetch ==
  /\ bulk_pc = "idle"
  /\ \E status \in StatusCodes :
       IF status # 200
         THEN /\ BulkFinish("fetch_error")
              /\ UNCHANGED pdf
         ELSE /\ \E p \in 1..MaxPages : pdf' \in Reports(p, MaxLines)
              /\ bulk_pc' = "pages"
              /\ UNCHANGED bulk_result
  /\ UNCHANGED <<page_number, current_county, all_data, origin, headers, groups,
                 writes, sheets>>
  /\ UNCHANGED vars

\* Lines 21-52: one page.
ProcessPage ==
  /\ bulk_pc = "pages"
  /\ page_number < Len(pdf)
  /\ LET text == pdf[page_number + 1]
         county_matches == findall(text)
         county == pick_county(county_matches, current_county)
         rows == page_rows(text, county, 1)
     IN /\ page_number' = page_number + 1
        /\ current_county' = county
        /\ all_data' = all_data \o [i \in 1..Len(rows) |-> rows[i].row]
        /\ origin' = origin \o [i \in 1..Len(rows) |-> <<page_number + 1, rows[i].line>>]
        /\ headers' = headers \o
             [i \in 1..Len(county_matches) |->
                [capture |-> county_matches[i].capture, page |-> page_number + 1,
                 line |-> county_matches[i].line]]
  /\ UNCHANGED <<bulk_pc, pdf, groups, writes, sheets, bulk_result>>
  /\ UNCHANGED vars

\* Lines 55-66: after the last page; no row raises ValueError before the
\* writer is opened.
GroupBy ==
  /\ bulk_pc = "pages"
  /\ page_number = Len(pdf)
  /\ IF all_data = << >>
       THEN /\ BulkFinish("empty_error")
            /\ UNCHANGED groups
       ELSE /\ groups' = groupby(all_data)
            /\ bulk_pc' = "write"
            /\ UNCHANGED bulk_result
  /\ UNCHANGED <<pdf, page_number, current_county, all_data, origin, headers,
                 writes, sheets>>
  /\ UNCHANGED vars

\* Lines 66-73: one turn of the loop over the groups; the file is complete
\* after the last.
WriteSheet ==
  /\ bulk_pc = "write"
  /\ groups # << >>
  /\ LET county == Head(groups).county
         group == Head(groups).group
         sheet_name == sheet_name_of(county)
     IN /\ sheets' = to_excel(sheets, sheet_name, group)
        /\ writes' = Append(writes, [county |-> county, sheet_name |-> sheet_name,
                                     rows |-> group])
  /\ groups' = Tail(groups)
  /\ IF Tail(groups) = << >>
       THEN BulkFinish("exported")
       ELSE UNCHANGED <<bulk_pc, bulk_result>>
  /\ UNCHANGED <<pdf, page_number, current_county, all_data, origin, headers>>
  /\ UNCHANGED vars

NextBulk ==
  \/ BulkFetch
  \/ ProcessPage
  \/ GroupBy
  \/ WriteSheet

SpecBulk == InitBulk /\ [][NextBulk]_<<vars, bulkvars>>

\* ------------------------------------------------ properties of the script

Rows == 1..Len(all_data)

\* The county matches that stand at or before a position of the text.
HeadersAtOrBefore(page, line) ==
  {h \in 1..Len(headers) :
     \/ headers[h].page < page
     \/ headers[h].page = page /\ headers[h].line <= line}

\* The county matches of the pages up to a page.
HeadersUpToPage(page) == {h \in 1..Len(headers) : headers[h].page <= page}

Latest(S) == CHOOSE h \in S : \A g \in S : g <= h

\* C13 as stated: the county of every row is the capture of the latest county
\* match at or before the row's line.
C13_KeyIsLatestHeaderBeforeLine ==
  \A i \in Rows :
    LET before == HeadersAtOrBefore(origin[i][1], origin[i][2])
    IN before # {} => all_data[i].County = headers[Latest(before)].capture

\* C14 as stated: every row was read from a line that has a county match at
\* or before it; a record line before the first county match gives no row.
C14_NoRowBeforeFirstHeader ==
  \A i \in Rows : HeadersAtOrBefore(origin[i][1], origin[i][2]) # {}

\* C15: the county in force is the capture of the last match so far (none
\* before the first); every row carries the capture of the last match of the
\* latest page, up to its own, that has a match; and every record line of a
\* page traversed gives a row once some page up to its own has a match.
C15_LastMatchOfPageGoverns ==
  /\ current_county = IF headers = << >> THEN << >>
                      ELSE headers[Len(headers)].capture
  /\ \A i \in Rows :
       LET upto == HeadersUpToPage(origin[i][1])
       IN /\ upto # {}
          /\ all_data[i].County = headers[Latest(upto)].capture
  /\ \A p \in 1..page_number : \A l \in 1..Len(pdf[p]) :
       (record_matches(pdf[p][l]) /\ HeadersUpToPage(p) # {}) =>
         \E i \in Rows : origin[i] = <<p, l>>

\* C15's case: a page with two different matches, and a row read from a later
\* page without a match that carries the capture of the second.
C15_Witness ==
  \E i \in Rows : \E g \in 1..Len(headers) : \E h \in 1..Len(headers) :
    /\ g < h
    /\ headers[g].page = headers[h].page
    /\ headers[g].capture # headers[h].capture
    /\ h = Len(headers)
    /\ origin[i][1] > headers[h].page
    /\ all_data[i].County = headers[h].capture

Keys == {all_data[i].County : i \in Rows}

\* Position <<page, line>> a stands before position b.
Before(a, b) == a[1] < b[1] \/ (a[1] = b[1] /\ a[2] < b[2])

\* C16: the rows are in document order; every to_excel call is given the
\* rows of one county, all of them, in that order, and at least one; a run
\* that exported made exactly one call per distinct county; a run ends with
\* the empty-extraction error exactly when it has no row, and then has
\* written nothing.
C16_OneGroupPerKey ==
  /\ \A i \in Rows : \A j \in Rows : i < j => Before(origin[i], origin[j])
  /\ \A w \in 1..Len(writes) :
       /\ writes[w].rows # << >>
       /\ writes[w].county \in Keys
       /\ writes[w].rows = SelectSeq(all_data, LAMBDA row : row.County = writes[w].county)
       /\ \A v \in 1..Len(writes) : writes[v].county = writes[w].county => v = w
  /\ bulk_result = "exported" =>
       /\ Len(writes) = Cardinality(Keys)
       /\ \A k \in Keys : \E w \in 1..Len(writes) : writes[w].county = k
  /\ (bulk_pc = "done" /\ bulk_result # "fetch_error") =>
       (bulk_result = "empty_error" <=> all_data = << >>)
  /\ bulk_result = "empty_error" => (writes = << >> /\ sheets = << >>)

\* C16's case: an export of two counties, one of them with two rows.
C16_Witness ==
  /\ bulk_result = "exported"
  /\ Len(writes) = 2
  /\ \E w \in 1..Len(writes) : Len(writes[w].rows) = 2

\* C20 as stated: after an export the workbook has as many sheets as there
\* were groups, and every group's rows are the rows of the sheet named by its
\* county cut to 31 characters.
C20_OneSheetPerGroup ==
  bulk_result = "exported" =>
    /\ Len(sheets) = Len(writes)
    /\ \A w \in 1..Len(writes) :
         \E n \in 1..Len(sheets) :
           /\ Len(sheets[n].name) <= SheetNameMax
           /\ sheets[n].name = sheet_name_of(writes[w].county)
           /\ sheets[n].rows = writes[w].rows

====
